---- MODULE Spec2Model ----
(***************************************************************************)
(* Block header of the ledger (ledger/src/block/block_header.rs) and the   *)
(* serde encoding of a coinbase-puzzle prover solution                     *)
(* (synthesizer/src/coinbase_puzzle/helpers/prover_solution/serialize.rs). *)
(*                                                                         *)
(* Bytes are naturals below 256.  A fixed-width integer is kept as its     *)
(* sequence of 16-bit limbs, least significant limb first (u32: 2 limbs,   *)
(* u64 and i64: 4 limbs, i64 in two's complement), so that every value of  *)
(* the type is representable and the little-endian encoding is computed.   *)
(***************************************************************************)
EXTENDS Integers, Sequences, FiniteSets, TLC

VARIABLES
    hdr,        \* codec: the header handed to the encoders
    encoded,    \* codec: output of BlockHeader::write_le
    generic,    \* codec: output of the generic structure serializer
    input,      \* codec: the bytes handed to BlockHeader::read_le
    decoded,    \* codec: result of BlockHeader::read_le
    done,       \* codec: the calls made so far
    call,       \* construction: per caller, the constructor invoked and its arguments
    args,       \* construction: per caller, the arguments BlockHeader::new runs with
    pc,         \* construction: per caller, the position inside BlockHeader::new
    miner,      \* construction: per caller, the state of the nonce search
    ret,        \* construction: per caller, what the constructor returned
    loads,      \* construction: how many times the parameter object was constructed
    sol,        \* solution: the prover solution handed to the encoders
    out,        \* solution: the encodings produced so far, by name
    back        \* solution: the results of the decodings made so far, by name

codecVars == <<hdr, encoded, generic, input, decoded, done>>

newVars == <<call, args, pc, miner, ret, loads>>

solVars == <<sol, out, back>>

vars ==
    <<hdr, encoded, generic, input, decoded, done,
      call, args, pc, miner, ret, loads,
      sol, out, back>>

\* the value of a result variable before the call that sets it
NoResult == [ok |-> FALSE, err |-> "NotCalled", field |-> "NotCalled"]

----------------------------------------------------------------------------
(* Bounds of the model *)

\* digests are drawn from Digest(0) .. Digest(MaxSeed)
MaxSeed == 1

\* proofs are drawn from ProofBytes(0) .. ProofBytes(MaxProofSeed)
MaxProofSeed == 2

----------------------------------------------------------------------------
(* Widths *)

BlockHeaderHash_size == 32

PedersenMerkleRoot_size == 32

MerkleRoot_size == 32

BlockHeaderMetadata_size == 20

ProofOfSuccinctWork_size == 771

ReferenceHeaderSize == 919

----------------------------------------------------------------------------
(* Fixed-width integers *)

Limb == 256 * 256

ZeroWord(n) == [i \in 1..n |-> 0]

MaxWord(n) == [i \in 1..n |-> Limb - 1]

U64_MAX == MaxWord(4)

U32_MAX == MaxWord(2)

\* to_le_bytes of a fixed-width integer: two bytes per limb, low byte first
to_le_bytes(w) ==
    [i \in 1..(2 * Len(w)) |->
        IF i % 2 = 1 THEN w[(i + 1) \div 2] % 256 ELSE w[i \div 2] \div 256]

\* from_le_bytes: the integer whose little-endian bytes are b
from_le_bytes(b) ==
    [j \in 1..(Len(b) \div 2) |-> b[2 * j - 1] + 256 * b[2 * j]]

\* unsigned comparison a <= b of two words of the same width
RECURSIVE WordLeqFrom(_, _, _)
WordLeqFrom(a, b, i) ==
    IF i = 0 THEN TRUE
    ELSE IF a[i] < b[i] THEN TRUE
    ELSE IF a[i] > b[i] THEN FALSE
    ELSE WordLeqFrom(a, b, i - 1)

WordLeq(a, b) == WordLeqFrom(a, b, Len(a))

WordLess(a, b) == WordLeq(a, b) /\ a # b

----------------------------------------------------------------------------
(* Values of the header's fields *)

Digest(seed) == [i \in 1..32 |-> (seed * i) % 256]

ZeroDigest == [i \in 1..32 |-> 0]

Digests == {Digest(s) : s \in 0..MaxSeed}

ProofBytes(seed) == [i \in 1..ProofOfSuccinctWork_size |-> (seed * i) % 256]

Proofs == {ProofBytes(s) : s \in 0..MaxProofSeed}

\* 0, a wall-clock time (1636000000) and -1
Timestamps == {ZeroWord(4), <<24832, 24963, 0, 0>>, MaxWord(4)}

Targets == {ZeroWord(4), <<513, 1027, 1541, 2055>>, U64_MAX}

Nonces == {ZeroWord(2), <<513, 1027>>}

BlockHeaderMetadata_new(timestamp, difficulty_target, nonce) ==
    [timestamp |-> timestamp, difficulty_target |-> difficulty_target, nonce |-> nonce]

BlockHeader(prev, txr, cmr, snr, metadata, proof) ==
    [previous_block_hash |-> prev,
     transactions_root |-> txr,
     commitments_root |-> cmr,
     serial_numbers_root |-> snr,
     metadata |-> metadata,
     proof |-> proof]

Headers ==
    {BlockHeader(p, t, c, s, BlockHeaderMetadata_new(ts, d, n), pr) :
        p \in Digests, t \in Digests, c \in Digests, s \in Digests,
        ts \in Timestamps, d \in Targets, n \in Nonces, pr \in Proofs}

----------------------------------------------------------------------------
(* BlockHeader::size *)

BlockHeader_size_short ==
    BlockHeaderHash_size
        + PedersenMerkleRoot_size
        + MerkleRoot_size
        + BlockHeaderMetadata_size
        + ProofOfSuccinctWork_size

BlockHeader_size ==
    BlockHeaderHash_size
        + PedersenMerkleRoot_size
        + MerkleRoot_size
        + MerkleRoot_size
        + BlockHeaderMetadata_size
        + ProofOfSuccinctWork_size

----------------------------------------------------------------------------
(* ToBytes: BlockHeader::write_le *)

BlockHeaderMetadata_write_le(m) ==
    to_le_bytes(m.timestamp) \o to_le_bytes(m.difficulty_target) \o to_le_bytes(m.nonce)

ProofOfSuccinctWork_write_le(p) == p

\* the commitments root written before the transactions root
BlockHeader_write_le_swapped(h) ==
    h.previous_block_hash
        \o h.commitments_root
        \o h.transactions_root
        \o h.serial_numbers_root
        \o BlockHeaderMetadata_write_le(h.metadata)
        \o ProofOfSuccinctWork_write_le(h.proof)

BlockHeader_write_le(h) ==
    h.previous_block_hash
        \o h.transactions_root
        \o h.commitments_root
        \o h.serial_numbers_root
        \o BlockHeaderMetadata_write_le(h.metadata)
        \o ProofOfSuccinctWork_write_le(h.proof)

----------------------------------------------------------------------------
(* FromBytes: BlockHeader::read_le.  A reader is the buffer and the number *)
(* of bytes already consumed; a read of n bytes fails when fewer remain.   *)

Ok(v, pos) == [ok |-> TRUE, value |-> v, pos |-> pos]

Eof(field) == [ok |-> FALSE, err |-> "UnexpectedEof", field |-> field]

read_exact(buf, pos, n, field) ==
    IF pos + n <= Len(buf)
    THEN Ok(SubSeq(buf, pos + 1, pos + n), pos + n)
    ELSE Eof(field)

BlockHeaderMetadata_read_le(buf, pos) ==
    LET ts == read_exact(buf, pos, 8, "timestamp") IN
    IF ~ts.ok THEN ts ELSE
    LET dt == read_exact(buf, ts.pos, 8, "difficulty_target") IN
    IF ~dt.ok THEN dt ELSE
    LET nc == read_exact(buf, dt.pos, 4, "nonce") IN
    IF ~nc.ok THEN nc ELSE
    Ok(BlockHeaderMetadata_new(from_le_bytes(ts.value),
                               from_le_bytes(dt.value),
                               from_le_bytes(nc.value)), nc.pos)

ProofOfSuccinctWork_read_le(buf, pos) ==
    read_exact(buf, pos, ProofOfSuccinctWork_size, "proof")

\* the two roots after the previous block hash taken in the other order
BlockHeader_read_le_swapped(buf) ==
    LET p == read_exact(buf, 0, 32, "previous_block_hash") IN
    IF ~p.ok THEN p ELSE
    LET c == read_exact(buf, p.pos, 32, "commitments_root") IN
    IF ~c.ok THEN c ELSE
    LET t == read_exact(buf, c.pos, 32, "transactions_root") IN
    IF ~t.ok THEN t ELSE
    LET s == read_exact(buf, t.pos, 32, "serial_numbers_root") IN
    IF ~s.ok THEN s ELSE
    LET m == BlockHeaderMetadata_read_le(buf, s.pos) IN
    IF ~m.ok THEN m ELSE
    LET pr == ProofOfSuccinctWork_read_le(buf, m.pos) IN
    IF ~pr.ok THEN pr ELSE
    Ok(BlockHeader(p.value, t.value, c.value, s.value, m.value, pr.value), pr.pos)

\* a short proof read replaced by the all-zero proof instead of propagated
BlockHeader_read_le_defaulting(buf) ==
    LET p == read_exact(buf, 0, 32, "previous_block_hash") IN
    IF ~p.ok THEN p ELSE
    LET t == read_exact(buf, p.pos, 32, "transactions_root") IN
    IF ~t.ok THEN t ELSE
    LET c == read_exact(buf, t.pos, 32, "commitments_root") IN
    IF ~c.ok THEN c ELSE
    LET s == read_exact(buf, c.pos, 32, "serial_numbers_root") IN
    IF ~s.ok THEN s ELSE
    LET m == BlockHeaderMetadata_read_le(buf, s.pos) IN
    IF ~m.ok THEN m ELSE
    LET pr == ProofOfSuccinctWork_read_le(buf, m.pos) IN
    Ok(BlockHeader(p.value, t.value, c.value, s.value, m.value,
                   IF pr.ok THEN pr.value ELSE ProofBytes(0)), Len(buf))

BlockHeader_read_le(buf) ==
    LET p == read_exact(buf, 0, 32, "previous_block_hash") IN
    IF ~p.ok THEN p ELSE
    LET t == read_exact(buf, p.pos, 32, "transactions_root") IN
    IF ~t.ok THEN t ELSE
    LET c == read_exact(buf, t.pos, 32, "commitments_root") IN
    IF ~c.ok THEN c ELSE
    LET s == read_exact(buf, c.pos, 32, "serial_numbers_root") IN
    IF ~s.ok THEN s ELSE
    LET m == BlockHeaderMetadata_read_le(buf, s.pos) IN
    IF ~m.ok THEN m ELSE
    LET pr == ProofOfSuccinctWork_read_le(buf, m.pos) IN
    IF ~pr.ok THEN pr ELSE
    Ok(BlockHeader(p.value, t.value, c.value, s.value, m.value, pr.value), pr.pos)

----------------------------------------------------------------------------
(* The generic structure serializer (bincode over the derived Serialize):  *)
(* a fixed-size byte array is its elements, an integer its fixed-width     *)
(* little-endian bytes, a struct its fields in declared order; nothing is  *)
(* length-prefixed or padded.                                              *)

Array(b) == [tag |-> "array", v |-> b]

FixInt(w) == [tag |-> "int", v |-> w]

Struct(fs) == [tag |-> "struct", v |-> fs]

\* byte k (from 0) of an integer of 16-bit limbs
fixint_byte(w, k) == (w[(k \div 2) + 1] \div (IF k % 2 = 0 THEN 1 ELSE 256)) % 256

RECURSIVE bincode_serialize(_)
RECURSIVE bincode_fields(_, _)
bincode_fields(fs, i) ==
    IF i > Len(fs) THEN <<>> ELSE bincode_serialize(fs[i]) \o bincode_fields(fs, i + 1)

bincode_serialize(x) ==
    CASE x.tag = "array" -> x.v
      [] x.tag = "int" -> [i \in 1..(2 * Len(x.v)) |-> fixint_byte(x.v, i - 1)]
      [] x.tag = "struct" -> bincode_fields(x.v, 1)

BlockHeaderMetadata_Serialize(m) ==
    Struct(<<FixInt(m.timestamp), FixInt(m.difficulty_target), FixInt(m.nonce)>>)

\* derive(Serialize) on the struct: its fields in the order they are declared
BlockHeader_Serialize(h) ==
    Struct(<<Array(h.previous_block_hash),
             Array(h.transactions_root),
             Array(h.commitments_root),
             Array(h.serial_numbers_root),
             BlockHeaderMetadata_Serialize(h.metadata),
             Array(h.proof)>>)

----------------------------------------------------------------------------
(* The codec's operations *)

\* no constructor is running
NewIdle ==
    /\ call = <<>>
    /\ args = <<>>
    /\ pc = <<>>
    /\ miner = <<>>
    /\ ret = <<>>
    /\ loads = 0
    /\ sol = <<>>
    /\ out = <<>>
    /\ back = <<>>

CodecInit ==
    /\ hdr \in Headers
    /\ encoded = <<>>
    /\ generic = <<>>
    /\ input = <<>>
    /\ decoded = NoResult
    /\ done = {}
    /\ NewIdle

\* block_header.to_bytes_le()
ToBytesLe ==
    /\ "write_le" \notin done
    /\ encoded' = BlockHeader_write_le(hdr)
    /\ done' = done \cup {"write_le"}
    /\ UNCHANGED <<hdr, generic, input, decoded, newVars, solVars>>

\* bincode::serialize(&block_header)
BincodeSerialize ==
    /\ "bincode" \notin done
    /\ generic' = bincode_serialize(BlockHeader_Serialize(hdr))
    /\ done' = done \cup {"bincode"}
    /\ UNCHANGED <<hdr, encoded, input, decoded, newVars, solVars>>

\* BlockHeader::read_le(&serialized[..])
ReadLe ==
    /\ "write_le" \in done
    /\ "read_le" \notin done
    /\ input' = encoded
    /\ decoded' = BlockHeader_read_le(encoded)
    /\ done' = done \cup {"read_le"}
    /\ UNCHANGED <<hdr, encoded, generic, newVars, solVars>>

CodecNext == ToBytesLe \/ BincodeSerialize \/ ReadLe

SpecCodec == CodecInit /\ [][CodecNext]_vars

----------------------------------------------------------------------------
(* Decoding a buffer that was cut short *)

TruncHeaders ==
    {BlockHeader(Digest(s), Digest(s), Digest(s), Digest(s),
                 BlockHeaderMetadata_new(ts, U64_MAX, <<513, 1027>>), ProofBytes(s)) :
        s \in 0..MaxSeed, ts \in Timestamps}

TruncInit ==
    /\ hdr \in TruncHeaders
    /\ encoded = BlockHeader_write_le(hdr)
    /\ generic = <<>>
    /\ input = <<>>
    /\ decoded = NoResult
    /\ done = {"write_le"}
    /\ NewIdle

\* the reader holds only the first n bytes of the encoding
Deliver(n) ==
    /\ "deliver" \notin done
    /\ input' = SubSeq(encoded, 1, n)
    /\ done' = done \cup {"deliver"}
    /\ UNCHANGED <<hdr, encoded, generic, decoded, newVars, solVars>>

ReadLeInput ==
    /\ "deliver" \in done
    /\ "read_le" \notin done
    /\ decoded' = BlockHeader_read_le(input)
    /\ done' = done \cup {"read_le"}
    /\ UNCHANGED <<hdr, encoded, generic, input, newVars, solVars>>

TruncNext == (\E n \in 0..Len(encoded) : Deliver(n)) \/ ReadLeInput

SpecTrunc == TruncInit /\ [][TruncNext]_vars

----------------------------------------------------------------------------
(* Claims on the header codec *)

\* C1: decoding the canonical encoding of a header gives back the same header,
\* field for field: read_le(write_le(h)) = h.
C1_RoundTrip ==
    "read_le" \in done =>
        /\ decoded.ok
        /\ decoded.value = hdr
        /\ decoded.value.previous_block_hash = hdr.previous_block_hash
        /\ decoded.value.transactions_root = hdr.transactions_root
        /\ decoded.value.commitments_root = hdr.commitments_root
        /\ decoded.value.serial_numbers_root = hdr.serial_numbers_root
        /\ decoded.value.metadata = hdr.metadata
        /\ decoded.value.proof = hdr.proof

C1_Witness ==
    /\ "read_le" \in done
    /\ decoded.ok
    /\ hdr.transactions_root # hdr.commitments_root
    /\ hdr.metadata.timestamp = <<24832, 24963, 0, 0>>
    /\ hdr.metadata.difficulty_target = <<513, 1027, 1541, 2055>>
    /\ hdr.metadata.nonce = <<513, 1027>>
    /\ hdr.proof # ProofBytes(0)

\* C5: the canonical encoding write_le(h) is byte for byte the output of the
\* generic structure serializer applied to h field by field in declared order.
C5_MatchesGenericSerializer ==
    ("write_le" \in done /\ "bincode" \in done) => encoded = generic

C5_Witness ==
    /\ "write_le" \in done
    /\ "bincode" \in done
    /\ hdr.transactions_root # hdr.commitments_root
    /\ hdr.metadata.timestamp = MaxWord(4)
    /\ hdr.metadata.nonce = <<513, 1027>>

\* C6: the length of the canonical encoding of every header is BlockHeader::size(),
\* the sum of the widths of its six fields, 919 bytes for the reference
\* parameterization, whatever the field values.
C6_EncodedLengthIsSize ==
    "write_le" \in done =>
        /\ Len(encoded) = BlockHeader_size
        /\ BlockHeader_size = 32 + 32 + 32 + 32 + 20 + ProofOfSuccinctWork_size
        /\ BlockHeader_size = ReferenceHeaderSize

C6_Witness ==
    /\ "write_le" \in done
    /\ hdr.proof # ProofBytes(0)
    /\ hdr.metadata.difficulty_target = U64_MAX

\* the first field, in reading order, whose end lies beyond n bytes
FieldEnds ==
    <<[field |-> "previous_block_hash", end |-> 32],
      [field |-> "transactions_root", end |-> 64],
      [field |-> "commitments_root", end |-> 96],
      [field |-> "serial_numbers_root", end |-> 128],
      [field |-> "timestamp", end |-> 136],
      [field |-> "difficulty_target", end |-> 144],
      [field |-> "nonce", end |-> 148],
      [field |-> "proof", end |-> 148 + ProofOfSuccinctWork_size]>>

FirstShortField(n) ==
    FieldEnds[CHOOSE i \in 1..Len(FieldEnds) :
        /\ FieldEnds[i].end > n
        /\ \A j \in 1..(i - 1) : FieldEnds[j].end <= n].field

\* C9: decoding a header from an input shorter than BlockHeader::size() fails with
\* a truncated-input error at the first field for which fewer bytes remain than
\* its width, and never returns a header.
C9_TruncatedInputFails ==
    ("read_le" \in done /\ Len(input) < BlockHeader_size) =>
        /\ ~decoded.ok
        /\ decoded.err = "UnexpectedEof"
        /\ decoded.field = FirstShortField(Len(input))

C9_Witness ==
    /\ "read_le" \in done
    /\ Len(input) = BlockHeader_size - 1
    /\ ~decoded.ok
    /\ decoded.field = "proof"

----------------------------------------------------------------------------
(* Construction of a header: BlockHeader::new and BlockHeader::new_genesis *)

\* max_nonce of an ordinary call ranges over 0 .. MaxNonce
MaxNonce == 2

\* BlockHeader::new runs in 1 .. NumCallers threads of one process
NumCallers == 2

\* a u32 from a natural below 2^31
ToU32(n) == <<n % Limb, n \div Limb>>

\* the transactions of a candidate block, by transaction id
TransactionLists == {<<>>, <<1>>, <<1, 2>>}

\* txids_to_roots: the root of the transaction-id tree (a hash, never all-zero)
txids_to_roots(transactions) == Digest(2 * Len(transactions) + 1)

\* MerkleTree::new over the commitments of the transactions, then its root
commitments_tree_root(transactions) == Digest(4 * Len(transactions) + 2)

\* MerkleTree::new over the serial numbers of the transactions, then its root
serial_numbers_tree_root(transactions) == Digest(4 * Len(transactions) + 4)

NewArgs(prev, transactions, cmr, snr, timestamp, difficulty_target, max_nonce) ==
    [previous_block_hash |-> prev,
     transactions |-> transactions,
     commitments_root |-> cmr,
     serial_numbers_root |-> snr,
     timestamp |-> timestamp,
     difficulty_target |-> difficulty_target,
     max_nonce |-> max_nonce]

\* the genesis header stamped with a wall-clock time instead of 0
new_genesis_args_stamped(transactions) ==
    NewArgs(ZeroDigest,
            transactions,
            commitments_tree_root(transactions),
            serial_numbers_tree_root(transactions),
            <<24832, 24963, 0, 0>>,
            U64_MAX,
            U32_MAX)

\* new_genesis: the arguments it hands to BlockHeader::new
new_genesis_args(transactions) ==
    NewArgs(ZeroDigest,
            transactions,
            commitments_tree_root(transactions),
            serial_numbers_tree_root(transactions),
            ZeroWord(4),
            U64_MAX,
            U32_MAX)

is_genesis(h) ==
    \/ h.metadata.timestamp = ZeroWord(4)
    \/ h.previous_block_hash = ZeroDigest

\* the proof bytes the proof backend can hand back: of the declared width, one
\* byte short and one byte long
CandidateProof(seed, width) == [i \in 1..width |-> (seed * i) % 256]

CandidateProofs ==
    {CandidateProof(s, w) :
        s \in 0..MaxProofSeed,
        w \in {ProofOfSuccinctWork_size - 1,
               ProofOfSuccinctWork_size,
               ProofOfSuccinctWork_size + 1}}

\* the score derived from the proof bytes
hash_to_difficulty(proof) == from_le_bytes(SubSeq(proof, 1, 8))

Searching(n) == [state |-> "Searching", nonce |-> n, proof |-> <<>>, sessions |-> 1]

NotMining == [state |-> "Idle", nonce |-> 0, proof |-> <<>>, sessions |-> 0]

\* one step of the nonce search, on the proof generated for the current nonce
mine_step(m, proof, difficulty_target, max_nonce) ==
    IF ~WordLess(ToU32(m.nonce), max_nonce)
    THEN [m EXCEPT !.state = "Exhausted"]
    ELSE IF WordLeq(hash_to_difficulty(proof), difficulty_target)
    THEN [m EXCEPT !.state = "Found", !.proof = proof]
    ELSE [m EXCEPT !.nonce = m.nonce + 1]

RetOk(h) == [ok |-> TRUE, err |-> "", value |-> h]

RetErr(e) == [ok |-> FALSE, err |-> e, value |-> <<>>]

\* the header stamped with nonce 0 whatever the miner returned
BlockHeader_new_assemble_nonce0(a, nonce, proof) ==
    BlockHeader(a.previous_block_hash,
                txids_to_roots(a.transactions),
                a.commitments_root,
                a.serial_numbers_root,
                BlockHeaderMetadata_new(a.timestamp, a.difficulty_target, ZeroWord(2)),
                proof)

\* Ok(Self { .. }) of BlockHeader::new
BlockHeader_new_assemble(a, nonce, proof) ==
    BlockHeader(a.previous_block_hash,
                txids_to_roots(a.transactions),
                a.commitments_root,
                a.serial_numbers_root,
                BlockHeaderMetadata_new(a.timestamp, a.difficulty_target, nonce),
                proof)

\* what BlockHeader::new returns once posw.mine has ended in state m
BlockHeader_new_return(a, m) ==
    IF m.state = "Exhausted"
    THEN RetErr("MiningExhausted")
    ELSE LET pr == ProofOfSuccinctWork_read_le(m.proof, 0) IN
         IF ~pr.ok
         THEN RetErr("MalformedProof")
         ELSE RetOk(BlockHeader_new_assemble(a, ToU32(m.nonce), pr.value))

\* the match on block_header.is_genesis() that ends new_genesis
new_genesis_return(r) ==
    IF ~r.ok THEN r
    ELSE IF is_genesis(r.value) THEN r
    ELSE RetErr("GenesisConstructionFailed")

NewCalls ==
    {[fn |-> "new",
      a |-> NewArgs(p, txs, Digest(s), Digest(s + 1), ts, d, ToU32(mn))] :
        p \in Digests, txs \in TransactionLists, s \in 0..MaxSeed,
        ts \in Timestamps, d \in Targets, mn \in 0..MaxNonce}

GenesisCalls ==
    {[fn |-> "new_genesis", a |-> NewArgs(ZeroDigest, txs, ZeroDigest, ZeroDigest,
                                          ZeroWord(4), ZeroWord(4), ZeroWord(2))] :
        txs \in TransactionLists}

CodecIdle ==
    /\ hdr = <<>>
    /\ encoded = <<>>
    /\ generic = <<>>
    /\ input = <<>>
    /\ decoded = NoResult
    /\ done = {}

NewInit(callers, calls) ==
    /\ CodecIdle
    /\ call \in [callers -> calls]
    /\ args = [c \in callers |-> call[c].a]
    /\ pc = [c \in callers |-> "call"]
    /\ miner = [c \in callers |-> NotMining]
    /\ ret = [c \in callers |-> RetErr("NotReturned")]
    /\ loads = 0
    /\ sol = <<>>
    /\ out = <<>>
    /\ back = <<>>

\* entry: new_genesis crafts its arguments; new asserts the transactions are not
\* empty and computes the transaction root
Enter(c) ==
    /\ pc[c] = "call"
    /\ LET a == IF call[c].fn = "new_genesis"
                THEN new_genesis_args(call[c].a.transactions)
                ELSE call[c].a
       IN /\ args' = [args EXCEPT ![c] = a]
          /\ IF a.transactions = <<>>
             THEN /\ pc' = [pc EXCEPT ![c] = "panicked"]
                  /\ ret' = [ret EXCEPT ![c] = RetErr("Panic")]
             ELSE /\ pc' = [pc EXCEPT ![c] = "load"]
                  /\ ret' = ret
    /\ UNCHANGED <<codecVars, solVars, call, miner, loads>>

\* PoswMarlin::load()?: the parameter object is constructed, or the load fails
Load(c, ok) ==
    /\ pc[c] = "load"
    /\ loads' = IF ok THEN loads + 1 ELSE loads
    /\ IF ok
       THEN /\ pc' = [pc EXCEPT ![c] = "mine"]
            /\ miner' = [miner EXCEPT ![c] = Searching(0)]
            /\ ret' = ret
       ELSE /\ pc' = [pc EXCEPT ![c] = "returned"]
            /\ miner' = miner
            /\ ret' = [ret EXCEPT ![c] = RetErr("ParametersLoad")]
    /\ UNCHANGED <<codecVars, solVars, call, args>>

\* posw.mine: the search tries the current nonce
Mine(c, proof) ==
    /\ pc[c] = "mine"
    /\ miner[c].state = "Searching"
    /\ miner' = [miner EXCEPT
                   ![c] = mine_step(@, proof, args[c].difficulty_target, args[c].max_nonce)]
    /\ UNCHANGED <<codecVars, solVars, call, args, pc, ret, loads>>

\* the search has ended: the header is assembled, or the error returned
Return(c) ==
    /\ pc[c] = "mine"
    /\ miner[c].state \in {"Found", "Exhausted"}
    /\ pc' = [pc EXCEPT ![c] = "returned"]
    /\ ret' = [ret EXCEPT
                 ![c] = IF call[c].fn = "new_genesis"
                        THEN new_genesis_return(BlockHeader_new_return(args[c], miner[c]))
                        ELSE BlockHeader_new_return(args[c], miner[c])]
    /\ UNCHANGED <<codecVars, solVars, call, args, miner, loads>>

NewNext ==
    \E c \in DOMAIN pc :
        \/ Enter(c)
        \/ \E ok \in BOOLEAN : Load(c, ok)
        \/ \E proof \in CandidateProofs : Mine(c, proof)
        \/ Return(c)

\* one call of a constructor
Spec == NewInit({1}, NewCalls \cup GenesisCalls) /\ [][NewNext]_vars

\* the search loop runs to its end: the calling thread is never suspended
SpecFair == Spec /\ WF_vars(NewNext)

\* calls of the constructors from NumCallers threads of one process
LoadCalls ==
    {[fn |-> "new",
      a |-> NewArgs(Digest(1), <<1>>, Digest(2), Digest(3),
                    <<24832, 24963, 0, 0>>, d, ToU32(1))] : d \in {ZeroWord(4), U64_MAX}}
        \cup {[fn |-> "new_genesis",
               a |-> NewArgs(ZeroDigest, <<1>>, ZeroDigest, ZeroDigest,
                             ZeroWord(4), ZeroWord(4), ZeroWord(2))]}

SpecLoad == NewInit(1..NumCallers, LoadCalls) /\ [][NewNext]_vars

----------------------------------------------------------------------------
(* Claims on the construction of a header *)

Returned(c) == pc[c] = "returned"

C2_Safety ==
    \A c \in DOMAIN pc :
        /\ miner[c].state = "Found" =>
              /\ WordLeq(hash_to_difficulty(miner[c].proof), args[c].difficulty_target)
              /\ WordLess(ToU32(miner[c].nonce), args[c].max_nonce)
        /\ (Returned(c) /\ miner[c].sessions > 0) =>
              miner[c].state \in {"Found", "Exhausted"}
        /\ (Returned(c) /\ miner[c].state = "Exhausted") =>
              ret[c] = RetErr("MiningExhausted")
        /\ (Returned(c) /\ ret[c].ok) =>
              /\ miner[c].state = "Found"
              /\ ret[c].value.metadata.nonce = ToU32(miner[c].nonce)

C3_LoadedAtMostOnce == loads <= 1

C10_HeaderOnlyFromWellFormedProof ==
    \A c \in DOMAIN pc :
        Returned(c) =>
            /\ ret[c].ok =>
                  /\ miner[c].state = "Found"
                  /\ Len(miner[c].proof) = ProofOfSuccinctWork_size
            /\ miner[c].state = "Exhausted" =>
                  /\ ret[c] = RetErr("MiningExhausted")
                  /\ miner[c].sessions = 1
            /\ (miner[c].state = "Found"
                  /\ Len(miner[c].proof) # ProofOfSuccinctWork_size) =>
                  ret[c] = RetErr("MalformedProof")

----------------------------------------------------------------------------
(* ProverSolution: the serde encoding in the human-readable and compact modes *)

\* the width in bytes of an address, a commitment and a scalar in the model
ElemWidth == 2

Elem(seed) == [i \in 1..ElemWidth |-> (seed * i) % 256]

Elems == {Elem(s) : s \in 0..MaxSeed}

NoneV == [some |-> FALSE, v |-> <<>>]

SomeV(x) == [some |-> TRUE, v |-> x]

PartialSolution_new(address, nonce, commitment) ==
    [address |-> address, nonce |-> nonce, commitment |-> commitment]

KZGProof(w, random_v) == [w |-> w, random_v |-> random_v]

ProverSolution_new(partial_solution, proof) ==
    [partial_solution |-> partial_solution, proof |-> proof]

ProverSolutions ==
    {ProverSolution_new(PartialSolution_new(a, n, c), KZGProof(w, v)) :
        a \in Elems, n \in Targets, c \in Elems, w \in Elems,
        v \in {NoneV} \cup {SomeV(x) : x \in Elems}}

(* JSON values *)

JsonNull == [t |-> "null", v |-> <<>>]

JsonStr(x) == [t |-> "str", v |-> x]

JsonNum(x) == [t |-> "num", v |-> x]

JsonObj(pairs) == [t |-> "obj", v |-> pairs]

Pair(k, x) == [key |-> k, value |-> x]

JsonKeys(j) == [i \in 1..Len(j.v) |-> j.v[i].key]

JsonHas(j, k) == j.t = "obj" /\ \E i \in 1..Len(j.v) : j.v[i].key = k

\* Value::get_mut(key), where the key is present
JsonGet(j, k) == j.v[CHOOSE i \in 1..Len(j.v) : j.v[i].key = k].value

\* bytes as the string of their hexadecimal digits, and back
hex(b) == [i \in 1..(2 * Len(b)) |->
             IF i % 2 = 1 THEN b[(i + 1) \div 2] \div 16 ELSE b[i \div 2] % 16]

unhex(d) == [j \in 1..(Len(d) \div 2) |-> 16 * d[2 * j - 1] + d[2 * j]]

Good(x) == [ok |-> TRUE, err |-> "", value |-> x]

Bad(e) == [ok |-> FALSE, err |-> e, value |-> <<>>]

\* Serialize / Deserialize of the fields, human-readable
PartialSolution_to_json(ps) ==
    JsonObj(<<Pair("address", JsonStr(hex(ps.address))),
              Pair("nonce", JsonNum(ps.nonce)),
              Pair("commitment", JsonStr(hex(ps.commitment)))>>)

PartialSolution_from_json(j) ==
    IF ~(JsonHas(j, "address") /\ JsonHas(j, "nonce") /\ JsonHas(j, "commitment"))
    THEN Bad("missing field")
    ELSE Good(PartialSolution_new(unhex(JsonGet(j, "address").v),
                                  JsonGet(j, "nonce").v,
                                  unhex(JsonGet(j, "commitment").v)))

Element_to_json(x) == JsonStr(hex(x))

Element_from_json(j) == IF j.t = "str" THEN Good(unhex(j.v)) ELSE Bad("invalid type")

\* serde_json::from_value::<Option<_>>: null is None, anything else is Some
Option_from_json(j) ==
    IF j.t = "null" THEN Good(NoneV)
    ELSE LET x == Element_from_json(j) IN IF x.ok THEN Good(SomeV(x.value)) ELSE x

\* DeserializeExt::take_from_value: the field must be present
take_from_value(j, k) == IF JsonHas(j, k) THEN Good(JsonGet(j, k)) ELSE Bad("missing field")

(* ToBytes / FromBytes of the solution *)

PartialSolution_write_le(ps) == ps.address \o to_le_bytes(ps.nonce) \o ps.commitment

KZGProof_write_le(pr) ==
    pr.w \o (IF pr.random_v.some THEN <<1>> \o pr.random_v.v ELSE <<0>>)

ProverSolution_write_le(s) ==
    PartialSolution_write_le(s.partial_solution) \o KZGProof_write_le(s.proof)

ProverSolution_read_le(buf) ==
    LET a == read_exact(buf, 0, ElemWidth, "address") IN
    IF ~a.ok THEN Bad(a.err) ELSE
    LET n == read_exact(buf, a.pos, 8, "nonce") IN
    IF ~n.ok THEN Bad(n.err) ELSE
    LET c == read_exact(buf, n.pos, ElemWidth, "commitment") IN
    IF ~c.ok THEN Bad(c.err) ELSE
    LET w == read_exact(buf, c.pos, ElemWidth, "w") IN
    IF ~w.ok THEN Bad(w.err) ELSE
    LET f == read_exact(buf, w.pos, 1, "random_v") IN
    IF ~f.ok THEN Bad(f.err) ELSE
    LET ps == PartialSolution_new(a.value, from_le_bytes(n.value), c.value) IN
    IF f.value = <<0>> THEN Good(ProverSolution_new(ps, KZGProof(w.value, NoneV))) ELSE
    IF f.value # <<1>> THEN Bad("InvalidData") ELSE
    LET v == read_exact(buf, f.pos, ElemWidth, "random_v") IN
    IF ~v.ok THEN Bad(v.err) ELSE
    Good(ProverSolution_new(ps, KZGProof(w.value, SomeV(v.value))))

\* a length below 2^31 as a u64
ToU64(n) == <<n % Limb, n \div Limb, 0, 0>>

\* ToBytesSerializer::serialize_with_size_encoding: the length as a u64, then the bytes
serialize_with_size_encoding(s) ==
    LET bytes == ProverSolution_write_le(s) IN to_le_bytes(ToU64(Len(bytes))) \o bytes

\* FromBytesDeserializer::deserialize_with_size_encoding
deserialize_with_size_encoding(buf) ==
    LET l == read_exact(buf, 0, 8, "size") IN
    IF ~l.ok THEN Bad(l.err) ELSE
    LET n == from_le_bytes(l.value) IN
    IF n[3] # 0 \/ n[4] # 0 \/ n[2] # 0 THEN Bad("UnexpectedEof") ELSE
    LET b == read_exact(buf, l.pos, n[1], "bytes") IN
    IF ~b.ok THEN Bad(b.err) ELSE ProverSolution_read_le(b.value)

(* impl Serialize for ProverSolution *)

\* "proof.random_v" emitted as a null when the scalar is absent
ProverSolution_serialize_struct_null(s) ==
    JsonObj(<<Pair("partial_solution", PartialSolution_to_json(s.partial_solution)),
              Pair("proof.w", Element_to_json(s.proof.w)),
              Pair("proof.random_v",
                   IF s.proof.random_v.some
                   THEN Element_to_json(s.proof.random_v.v)
                   ELSE JsonNull)>>)

\* the human-readable arm
ProverSolution_serialize_struct(s) ==
    JsonObj(<<Pair("partial_solution", PartialSolution_to_json(s.partial_solution)),
              Pair("proof.w", Element_to_json(s.proof.w))>>
            \o (IF s.proof.random_v.some
                THEN <<Pair("proof.random_v", Element_to_json(s.proof.random_v.v))>>
                ELSE <<>>))

\* the compact arm writing the bytes without the size
ProverSolution_serialize_unframed(s, human_readable) ==
    IF human_readable
    THEN ProverSolution_serialize_struct(s)
    ELSE ProverSolution_write_le(s)

ProverSolution_serialize(s, human_readable) ==
    IF human_readable
    THEN ProverSolution_serialize_struct(s)
    ELSE serialize_with_size_encoding(s)

(* impl Deserialize for ProverSolution *)

\* the human-readable arm
ProverSolution_deserialize_value(j) ==
    LET psj == take_from_value(j, "partial_solution") IN
    IF ~psj.ok THEN psj ELSE
    LET ps == PartialSolution_from_json(psj.value) IN
    IF ~ps.ok THEN ps ELSE
    LET wj == take_from_value(j, "proof.w") IN
    IF ~wj.ok THEN wj ELSE
    LET w == Element_from_json(wj.value) IN
    IF ~w.ok THEN w ELSE
    LET v == Option_from_json(IF JsonHas(j, "proof.random_v")
                              THEN JsonGet(j, "proof.random_v")
                              ELSE JsonNull) IN
    IF ~v.ok THEN v ELSE
    Good(ProverSolution_new(ps.value, KZGProof(w.value, v.value)))

ProverSolution_deserialize(x, human_readable) ==
    IF human_readable
    THEN ProverSolution_deserialize_value(x)
    ELSE deserialize_with_size_encoding(x)

(* The operations on a solution *)

\* a JSON object as a client may send it: a key removed, or sent as a null
Edits == {"drop proof.random_v", "null proof.random_v", "drop proof.w"}

Without(j, k) == JsonObj(SelectSeq(j.v, LAMBDA p : p.key # k))

Edited(j, e) ==
    CASE e = "drop proof.random_v" -> Without(j, "proof.random_v")
      [] e = "null proof.random_v" ->
            JsonObj(Without(j, "proof.random_v").v \o <<Pair("proof.random_v", JsonNull)>>)
      [] e = "drop proof.w" -> Without(j, "proof.w")

SolInit ==
    /\ CodecIdle
    /\ call = <<>>
    /\ args = <<>>
    /\ pc = <<>>
    /\ miner = <<>>
    /\ ret = <<>>
    /\ loads = 0
    /\ sol \in ProverSolutions
    /\ out = <<>>
    /\ back = <<>>

\* serde_json::to_value(&solution) (human-readable), bincode::serialize(&solution)
Serialize(mode) ==
    /\ mode \notin DOMAIN out
    /\ out' = out @@ (mode :> ProverSolution_serialize(sol, mode = "human"))
    /\ UNCHANGED <<codecVars, newVars, sol, back>>

\* solution.to_bytes_le()
SolToBytesLe ==
    /\ "raw" \notin DOMAIN out
    /\ out' = out @@ ("raw" :> ProverSolution_write_le(sol))
    /\ UNCHANGED <<codecVars, newVars, sol, back>>

\* serde_json::from_value, bincode::deserialize
Deserialize(mode) ==
    /\ mode \in DOMAIN out
    /\ mode \notin DOMAIN back
    /\ back' = back @@ (mode :> ProverSolution_deserialize(out[mode], mode = "human"))
    /\ UNCHANGED <<codecVars, newVars, sol, out>>

\* ProverSolution::read_le(&bytes[..])
SolReadLe ==
    /\ "raw" \in DOMAIN out
    /\ "raw" \notin DOMAIN back
    /\ back' = back @@ ("raw" :> ProverSolution_read_le(out["raw"]))
    /\ UNCHANGED <<codecVars, newVars, sol, out>>

\* serde_json::from_value of an edited object
DeserializeEdited(e) ==
    /\ "human" \in DOMAIN out
    /\ e \notin DOMAIN back
    /\ back' = back @@ (e :> ProverSolution_deserialize(Edited(out["human"], e), TRUE))
    /\ UNCHANGED <<codecVars, newVars, sol, out>>

SolNext ==
    \/ \E mode \in {"human", "compact"} : Serialize(mode)
    \/ SolToBytesLe
    \/ \E mode \in {"human", "compact"} : Deserialize(mode)
    \/ SolReadLe
    \/ \E e \in Edits : DeserializeEdited(e)

SpecSolution == SolInit /\ [][SolNext]_vars

----------------------------------------------------------------------------
(* Claims on the encoding of a solution *)

\* C7: decode(encode(s)) = s in the human-readable and in the compact mode; when
\* random_v is absent the human-readable encoding has exactly the keys
\* "partial_solution" and "proof.w", and decoding an input without the
\* "proof.random_v" key yields random_v = none.
C7_SolutionRoundTrip ==
    /\ \A m \in {"human", "compact"} :
          m \in DOMAIN back => (back[m].ok /\ back[m].value = sol)
    /\ ("human" \in DOMAIN out /\ ~sol.proof.random_v.some) =>
          JsonKeys(out["human"]) = <<"partial_solution", "proof.w">>
    /\ "drop proof.random_v" \in DOMAIN back =>
          /\ back["drop proof.random_v"].ok
          /\ back["drop proof.random_v"].value.proof.random_v = NoneV
          /\ back["drop proof.random_v"].value.partial_solution = sol.partial_solution
          /\ back["drop proof.random_v"].value.proof.w = sol.proof.w

C7_Witness ==
    /\ {"human", "compact", "drop proof.random_v"} \subseteq DOMAIN back
    /\ ~sol.proof.random_v.some
    /\ sol.partial_solution.nonce = <<513, 1027, 1541, 2055>>
    /\ sol.proof.w # sol.partial_solution.commitment

\* C8: the compact size-prefixed encoding without its leading 8 bytes is byte for
\* byte the raw encoding to_bytes_le(s), and both the raw and the prefixed bytes
\* decode back to s.
C8_FramingAgrees ==
    /\ {"compact", "raw"} \subseteq DOMAIN out =>
          SubSeq(out["compact"], 9, Len(out["compact"])) = out["raw"]
    /\ "raw" \in DOMAIN back => (back["raw"].ok /\ back["raw"].value = sol)
    /\ "compact" \in DOMAIN back => (back["compact"].ok /\ back["compact"].value = sol)

C8_Witness ==
    /\ {"compact", "raw"} \subseteq DOMAIN out
    /\ {"compact", "raw"} \subseteq DOMAIN back
    /\ sol.proof.random_v.some
    /\ sol.proof.random_v.v # Elem(0)

====
